---- MODULE Spec2Model ----
(***************************************************************************)
(* Model of the auth-onsocial key store (src/src/state.rs):                *)
(* AuthContractState with its per-account key sets, the activity           *)
(* timestamps and the index of registered accounts, and the operations     *)
(* is_authorized, register_key, remove_key, rotate_key,                    *)
(* remove_expired_keys and remove_inactive_accounts.                       *)
(*                                                                         *)
(* Time is counted in units of 1000 milliseconds (the clock only takes     *)
(* multiples of it), so that one year fits TLC's integers.  Every time     *)
(* quantity of the code is a sum of the clock, of whole days and of        *)
(* ONE_YEAR_MS, so the comparisons are the code's.                         *)
(*                                                                         *)
(* near_sdk::store::IterableSet<T> is a vector of elements plus a lookup   *)
(* index keyed by the borsh bytes of the whole element: contains/remove    *)
(* match the complete value, insert pushes at the end, remove is a         *)
(* swap_remove, iter() walks the vector.  It is modelled as a sequence     *)
(* without repetition.  Option<T> is << >> (None) or <<v>> (Some(v)).      *)
(*                                                                         *)
(* Every operation of AuthContractState is an operator of its arguments    *)
(* that yields, from the current state, the Outcome of the call: the three *)
(* collections after it, the value it returns and the events it emits.     *)
(* The ...Step actions apply these operators to inputs drawn from small    *)
(* sets.                                                                   *)
(***************************************************************************)
EXTENDS Integers, Sequences, FiniteSets

VARIABLES keys, last_active_timestamps, registered_accounts,
          block_timestamp_ms, ticks

state == <<keys, last_active_timestamps, registered_accounts>>
vars == <<keys, last_active_timestamps, registered_accounts,
          block_timestamp_ms, ticks>>

\* ---------------------------------------------------------------- bounds
\* records held by the whole store, and moves of the clock
MaxKeys == 2
MaxTicks == 2

\* ------------------------------------------------------------- constants
\* 24 * 60 * 60 * 1000 ms and 31_536_000_000 ms, in units of 1000 ms
DAY_MS == 24 * 60 * 60
ONE_YEAR_MS == 31536000

\* ---------------------------------------------------------------- inputs
AccountIds == {"alice", "bob"}
PublicKeys == {"K1", "K2"}

None == << >>
Some(v) == <<v>>
IsSome(o) == o # None
Unwrap(o) == o[1]

\* A signature blob: its length in bytes and whether the verification
\* primitive accepts it for the payload under the key.
Blob(n, ok) == [len |-> n, verifies |-> ok]
ValidSig == Blob(64, TRUE)
GarbageSig == Blob(64, FALSE)
SignatureInputs ==
    { None, Some(<< >>), Some(<<ValidSig>>), Some(<<GarbageSig>>),
      Some(<<ValidSig, ValidSig>>) }

\* <<expiration_days, is_multi_sig, multi_sig_threshold>>: a plain key, a
\* multi-sig key with the default threshold that expires after 365 days
\* (one clock step), a multi-sig key with a threshold above ten
PolicyInputs ==
    { <<None, FALSE, None>>, <<Some(365), TRUE, None>>, <<None, TRUE, Some(11)>> }

ClockSteps == {ONE_YEAR_MS}

\* ----------------------------------------------------------------- types
KeyInfo(pk, exp, ms, thr) ==
    [public_key |-> pk, expiration_timestamp |-> exp,
     is_multi_sig |-> ms, multi_sig_threshold |-> thr]

KeyRegistered(a, pk) == [event |-> "KeyRegistered", account_id |-> a, public_key |-> pk]
KeyRemoved(a, pk) == [event |-> "KeyRemoved", account_id |-> a, public_key |-> pk]
KeyRotated(a, old, new) ==
    [event |-> "KeyRotated", account_id |-> a, old_public_key |-> old, new_public_key |-> new]

\* ---------------------------------------------------------- IterableSet
SetContains(s, e) == \E i \in 1..Len(s) : s[i] = e
SetIndexOf(s, e) == CHOOSE i \in 1..Len(s) : s[i] = e
SetInsert(s, e) == IF SetContains(s, e) THEN s ELSE Append(s, e)
SwapRemove(s, i) ==
    [j \in 1..(Len(s) - 1) |-> IF j = i THEN s[Len(s)] ELSE s[j]]
SetRemove(s, e) == IF SetContains(s, e) THEN SwapRemove(s, SetIndexOf(s, e)) ELSE s

RECURSIVE SetRemoveAll(_, _)
SetRemoveAll(s, es) ==
    IF es = << >> THEN s ELSE SetRemoveAll(SetRemove(s, Head(es)), Tail(es))

\* key_set.iter().find(|k| k.public_key == *public_key)
Find(s, pk) ==
    IF \E i \in 1..Len(s) : s[i].public_key = pk
    THEN LET i == CHOOSE i \in 1..Len(s) :
                     /\ s[i].public_key = pk
                     /\ \A j \in 1..(i - 1) : s[j].public_key # pk
         IN Some(s[i])
    ELSE None

\* ------------------------------------------------------ state accessors
KeySet(ks, a) == IF ks[a] = None THEN << >> ELSE Unwrap(ks[a])
Records(ks, a) == {KeySet(ks, a)[i] : i \in 1..Len(KeySet(ks, a))}
HoldsKey(ks, a, pk) == \E r \in Records(ks, a) : r.public_key = pk
InIndex(reg, a) == SetContains(reg, a)

RECURSIVE StoredRecords(_, _)
StoredRecords(ks, as) ==
    IF as = {} THEN 0
    ELSE LET a == CHOOSE x \in as : TRUE
         IN Len(KeySet(ks, a)) + StoredRecords(ks, as \ {a})

\* ---------------------------------------------------------------- outcomes
Outcome(ks, ts, reg, res, events) ==
    [keys |-> ks, last_active_timestamps |-> ts, registered_accounts |-> reg,
     result |-> res, logs |-> events]

\* an early return: nothing written, nothing emitted
Returns(res) ==
    Outcome(keys, last_active_timestamps, registered_accounts, res, << >>)

StateOf(o) == <<o.keys, o.last_active_timestamps, o.registered_accounts>>

\* --------------------------------------------------------------- helpers
\* expiration_days.map(|days| now + days * 24 * 60 * 60 * 1000)
ExpirationTimestamp(expiration_days, now) ==
    IF IsSome(expiration_days) THEN Some(now + Unwrap(expiration_days) * DAY_MS) ELSE None

\* mutant: any caller passes for the account
IsOwner_Anyone(caller, account_id) == TRUE

\* if caller != account_id { return Err(AuthError::Unauthorized) }
IsOwner(caller, account_id) == caller = account_id

\* mutant: a key is refused from its expiration instant on
IsExpired_AtInstant(key_info, now) ==
    /\ IsSome(key_info.expiration_timestamp)
    /\ now >= Unwrap(key_info.expiration_timestamp)

\* if let Some(expiration) = ... { if now > expiration { return false } }
IsExpired(key_info, now) ==
    /\ IsSome(key_info.expiration_timestamp)
    /\ now > Unwrap(key_info.expiration_timestamp)

SigCount(signatures) == IF IsSome(signatures) THEN Len(Unwrap(signatures)) ELSE 0

\* mutant: the threshold has to be exceeded
Authorized_Exceeds(key_info, signatures) ==
    IF key_info.is_multi_sig
    THEN LET threshold == IF IsSome(key_info.multi_sig_threshold)
                          THEN Unwrap(key_info.multi_sig_threshold) ELSE 1
         IN SigCount(signatures) > threshold
    ELSE TRUE

\* let authorized = if key_info.is_multi_sig { len >= threshold } else { true }
Authorized(key_info, signatures) ==
    IF key_info.is_multi_sig
    THEN LET threshold == IF IsSome(key_info.multi_sig_threshold)
                          THEN Unwrap(key_info.multi_sig_threshold) ELSE 1
         IN SigCount(signatures) >= threshold
    ELSE TRUE

\* the KeyInfo that remove_key and rotate_key build to look a key up
LookupInfo(pk) == KeyInfo(pk, None, FALSE, None)

\* mutant: the account stops being active at the end of the year
StillActive_Before(now, last_active) == now < last_active + ONE_YEAR_MS

\* current_timestamp <= last_active + ONE_YEAR_MS
StillActive(now, last_active) == now <= last_active + ONE_YEAR_MS

\* mutant: the sweep takes every key that has an expiration
SweepExpired_AnyExpiring(key_info, now) == IsSome(key_info.expiration_timestamp)

\* mutant: the sweep takes a key at its expiration instant
SweepExpired_AtInstant(key_info, now) ==
    /\ IsSome(key_info.expiration_timestamp)
    /\ now >= Unwrap(key_info.expiration_timestamp)

\* key_info.expiration_timestamp.map_or(false, |exp| current_timestamp > exp)
SweepExpired(key_info, now) ==
    /\ IsSome(key_info.expiration_timestamp)
    /\ now > Unwrap(key_info.expiration_timestamp)

\* mutant: the purge leaves the account in the index
PurgeIfEmpty_KeepsIndexEntry(ks, ts, reg, a, key_set, res, events) ==
    IF key_set = << >>
    THEN Outcome([ks EXCEPT ![a] = None], [ts EXCEPT ![a] = None], reg, res, events)
    ELSE Outcome([ks EXCEPT ![a] = Some(key_set)], ts, reg, res, events)

\* mutant: a removal that leaves keys behind drops the activity timestamp too
PurgeIfEmpty_AlwaysForgetsActivity(ks, ts, reg, a, key_set, res, events) ==
    IF key_set = << >>
    THEN Outcome([ks EXCEPT ![a] = None], [ts EXCEPT ![a] = None],
                 SetRemove(reg, a), res, events)
    ELSE Outcome([ks EXCEPT ![a] = Some(key_set)], [ts EXCEPT ![a] = None], reg, res, events)

\* mutant: the purge forgets the activity timestamp
PurgeIfEmpty_KeepsTimestamp(ks, ts, reg, a, key_set, res, events) ==
    IF key_set = << >>
    THEN Outcome([ks EXCEPT ![a] = None], ts, SetRemove(reg, a), res, events)
    ELSE Outcome([ks EXCEPT ![a] = Some(key_set)], ts, reg, res, events)

\* if key_set.is_empty() { keys.remove; last_active_timestamps.remove;
\*                         registered_accounts.remove }
PurgeIfEmpty(ks, ts, reg, a, key_set, res, events) ==
    IF key_set = << >>
    THEN Outcome([ks EXCEPT ![a] = None], [ts EXCEPT ![a] = None],
                 SetRemove(reg, a), res, events)
    ELSE Outcome([ks EXCEPT ![a] = Some(key_set)], ts, reg, res, events)

\* for key_info in to_remove { key_set.remove(&key_info); KeyRemoved.emit() }:
\* the key set at the moment the i-th KeyRemoved of the loop is emitted
KeySetAtEmission(key_set, to_remove, i) ==
    SetRemoveAll(key_set, SubSeq(to_remove, 1, i))

\* the to_remove vector of remove_expired_keys
ExpiredRecords(key_set, now) ==
    LET Test(k) == SweepExpired(k, now)
    IN SelectSeq(key_set, Test)

RemovedEvents(a, to_remove) ==
    [i \in 1..Len(to_remove) |-> KeyRemoved(a, to_remove[i].public_key)]

\* ------------------------------------------------------------ operations
get_key_info(account_id, public_key) ==
    IF keys[account_id] = None THEN None
    ELSE Find(Unwrap(keys[account_id]), public_key)

\* mutant: the activity timestamp is written whatever the decision on the
\* signatures
is_authorized_AlwaysTouches(account_id, public_key, signatures) ==
    LET found == IF keys[account_id] = None THEN None
                 ELSE Find(Unwrap(keys[account_id]), public_key)
    IN IF found = None THEN Returns(FALSE)
       ELSE IF IsExpired(Unwrap(found), block_timestamp_ms) THEN Returns(FALSE)
       ELSE Outcome(keys,
                    [last_active_timestamps EXCEPT ![account_id] = Some(block_timestamp_ms)],
                    registered_accounts, Authorized(Unwrap(found), signatures), << >>)

is_authorized(account_id, public_key, signatures) ==
    LET found == IF keys[account_id] = None THEN None
                 ELSE Find(Unwrap(keys[account_id]), public_key)
    IN IF found = None THEN Returns(FALSE)
       ELSE IF IsExpired(Unwrap(found), block_timestamp_ms) THEN Returns(FALSE)
       ELSE IF Authorized(Unwrap(found), signatures)
       THEN Outcome(keys,
                    [last_active_timestamps EXCEPT ![account_id] = Some(block_timestamp_ms)],
                    registered_accounts, TRUE, << >>)
       ELSE Returns(FALSE)

register_key(caller, account_id, public_key, expiration_days, is_multi_sig, multi_sig_threshold) ==
    LET key_info == KeyInfo(public_key,
                            ExpirationTimestamp(expiration_days, block_timestamp_ms),
                            is_multi_sig, multi_sig_threshold)
        fresh == keys[account_id] = None
        keys1 == IF fresh THEN [keys EXCEPT ![account_id] = Some(<< >>)] ELSE keys
        reg1 == IF fresh THEN SetInsert(registered_accounts, account_id)
                ELSE registered_accounts
        key_set == Unwrap(keys1[account_id])
    IN IF ~IsOwner(caller, account_id) THEN Returns("Unauthorized")
       ELSE IF SetContains(key_set, key_info)
       THEN Outcome(keys1, last_active_timestamps, reg1, "KeyAlreadyExists", << >>)
       ELSE Outcome([keys1 EXCEPT ![account_id] = Some(SetInsert(key_set, key_info))],
                    [last_active_timestamps EXCEPT ![account_id] = Some(block_timestamp_ms)],
                    reg1, "Ok", <<KeyRegistered(account_id, public_key)>>)

remove_key(caller, account_id, public_key) ==
    LET key_info == LookupInfo(public_key)
    IN IF ~IsOwner(caller, account_id) THEN Returns("Unauthorized")
       ELSE IF keys[account_id] = None THEN Returns("KeyNotFound")
       ELSE IF ~SetContains(Unwrap(keys[account_id]), key_info) THEN Returns("KeyNotFound")
       ELSE PurgeIfEmpty(keys, last_active_timestamps, registered_accounts, account_id,
                         SetRemove(Unwrap(keys[account_id]), key_info),
                         "Ok", <<KeyRemoved(account_id, public_key)>>)

rotate_key(caller, account_id, old_public_key, new_public_key, expiration_days, is_multi_sig, multi_sig_threshold) ==
    LET old_key_info == LookupInfo(old_public_key)
        new_key_info == KeyInfo(new_public_key,
                                ExpirationTimestamp(expiration_days, block_timestamp_ms),
                                is_multi_sig, multi_sig_threshold)
    IN IF ~IsOwner(caller, account_id) THEN Returns("Unauthorized")
       ELSE IF keys[account_id] = None THEN Returns("KeyNotFound")
       ELSE IF ~SetContains(Unwrap(keys[account_id]), old_key_info)
       THEN Returns("KeyNotFound")
       ELSE IF SetContains(Unwrap(keys[account_id]), new_key_info)
       THEN Returns("KeyAlreadyExists")
       ELSE Outcome([keys EXCEPT ![account_id] =
                        Some(SetInsert(SetRemove(Unwrap(keys[account_id]), old_key_info),
                                       new_key_info))],
                    [last_active_timestamps EXCEPT ![account_id] = Some(block_timestamp_ms)],
                    registered_accounts, "Ok",
                    <<KeyRotated(account_id, old_public_key, new_public_key)>>)

remove_expired_keys(account_id) ==
    IF keys[account_id] = None THEN Returns("KeyNotFound")
    ELSE LET Test(k) == SweepExpired(k, block_timestamp_ms)
             to_remove == SelectSeq(Unwrap(keys[account_id]), Test)
         IN PurgeIfEmpty(keys, last_active_timestamps, registered_accounts, account_id,
                         SetRemoveAll(Unwrap(keys[account_id]), to_remove),
                         "Ok", RemovedEvents(account_id, to_remove))

remove_inactive_accounts(account_id) ==
    IF last_active_timestamps[account_id] = None THEN Returns("KeyNotFound")
    ELSE IF StillActive(block_timestamp_ms, Unwrap(last_active_timestamps[account_id]))
    THEN Returns("AccountStillActive")
    ELSE IF keys[account_id] = None THEN Returns("KeyNotFound")
    ELSE Outcome([keys EXCEPT ![account_id] = None],
                 [last_active_timestamps EXCEPT ![account_id] = None],
                 SetRemove(registered_accounts, account_id),
                 "Ok", RemovedEvents(account_id, Unwrap(keys[account_id])))

\* mutant: any page size is accepted
LimitOk_Any(limit) == TRUE

\* assert!(limit <= 100, "Limit exceeds maximum allowed value")
LimitOk(limit) == limit <= 100

\* mutant: an account counts as inactive from the end of its year on
Inactive_AtYearEnd(now, timestamp) == now >= timestamp + ONE_YEAR_MS

\* current_timestamp > timestamp + ONE_YEAR_MS
Inactive(now, timestamp) == now > timestamp + ONE_YEAR_MS

\* mutant: the page starts one position late
InPage_After(index, start, count, limit) == index > start /\ count < limit

\* index >= start && count < limit
InPage(index, start, count, limit) == index >= start /\ count < limit

\* for account_id in self.registered_accounts.iter() { ... }: the loop from
\* position index (0-based) on, with count accounts collected so far
RECURSIVE ScanIndex(_, _, _, _, _, _)
ScanIndex(index, count, inactive_accounts, limit, start, end) ==
    IF index >= Len(registered_accounts) THEN inactive_accounts
    ELSE LET account_id == registered_accounts[index + 1]
             timestamp == last_active_timestamps[account_id]
             push == /\ InPage(index, start, count, limit)
                     /\ IsSome(timestamp)
                     /\ Inactive(block_timestamp_ms, Unwrap(timestamp))
             found == IF push THEN Append(inactive_accounts, account_id)
                      ELSE inactive_accounts
             count1 == IF push THEN count + 1 ELSE count
         IN IF index + 1 >= end THEN found
            ELSE ScanIndex(index + 1, count1, found, limit, start, end)

\* the result is None when the assertion fails (the call panics) and
\* Some(accounts) otherwise; offset + limit stays within u32 for the inputs
get_inactive_accounts(limit, offset) ==
    IF ~LimitOk(limit) THEN Returns(None)
    ELSE Returns(Some(ScanIndex(0, 0, << >>, limit, offset, offset + limit)))

\* --------------------------------------------------------------- actions
Init ==
    /\ keys = [a \in AccountIds |-> None]
    /\ last_active_timestamps = [a \in AccountIds |-> None]
    /\ registered_accounts = << >>
    /\ block_timestamp_ms = 0
    /\ ticks = 0

\* the call runs to completion and its writes become the state
Apply(o) ==
    /\ keys' = o.keys
    /\ last_active_timestamps' = o.last_active_timestamps
    /\ registered_accounts' = o.registered_accounts
    /\ UNCHANGED <<block_timestamp_ms, ticks>>

IsAuthorizedStep ==
    \E a \in AccountIds, pk \in PublicKeys, sigs \in SignatureInputs :
        Apply(is_authorized(a, pk, sigs))

RegisterKeyStep ==
    \E c \in AccountIds, a \in AccountIds, pk \in PublicKeys, p \in PolicyInputs :
        LET o == register_key(c, a, pk, p[1], p[2], p[3])
        IN /\ StoredRecords(o.keys, AccountIds) <= MaxKeys
           /\ Apply(o)

RemoveKeyStep ==
    \E c \in AccountIds, a \in AccountIds, pk \in PublicKeys :
        Apply(remove_key(c, a, pk))

RotateKeyStep ==
    \E c \in AccountIds, a \in AccountIds, old \in PublicKeys, new \in PublicKeys,
       p \in PolicyInputs :
        Apply(rotate_key(c, a, old, new, p[1], p[2], p[3]))

RemoveExpiredKeysStep == \E a \in AccountIds : Apply(remove_expired_keys(a))

RemoveInactiveAccountsStep == \E a \in AccountIds : Apply(remove_inactive_accounts(a))

\* env::block_timestamp_ms() of a later call: the host clock moves on
Tick ==
    /\ ticks < MaxTicks
    /\ \E d \in ClockSteps : block_timestamp_ms' = block_timestamp_ms + d
    /\ ticks' = ticks + 1
    /\ UNCHANGED state

\* ------------------------------------------- the index of three accounts
\* The same operations over three accounts, each called by its owner with
\* plain keys, and the paginated scan of the index.
IndexAccountIds == {"alice", "bob", "carol"}
LimitInputs == {0, 1, 2, 101}
OffsetInputs == {0, 1, 2, 3}

IndexInit ==
    /\ keys = [a \in IndexAccountIds |-> None]
    /\ last_active_timestamps = [a \in IndexAccountIds |-> None]
    /\ registered_accounts = << >>
    /\ block_timestamp_ms = 0
    /\ ticks = 0

IndexRegisterKeyStep ==
    \E a \in IndexAccountIds : Apply(register_key(a, a, "K1", None, FALSE, None))

IndexRemoveKeyStep ==
    \E a \in IndexAccountIds, pk \in PublicKeys : Apply(remove_key(a, a, pk))

IndexRotateKeyStep ==
    \E a \in IndexAccountIds, old \in PublicKeys, new \in PublicKeys :
        Apply(rotate_key(a, a, old, new, None, FALSE, None))

IndexIsAuthorizedStep ==
    \E a \in IndexAccountIds, pk \in PublicKeys : Apply(is_authorized(a, pk, None))

IndexRemoveInactiveAccountsStep ==
    \E a \in IndexAccountIds : Apply(remove_inactive_accounts(a))

GetInactiveAccountsStep ==
    \E limit \in LimitInputs, offset \in OffsetInputs :
        Apply(get_inactive_accounts(limit, offset))

IndexNext ==
    \/ IndexRegisterKeyStep
    \/ IndexRemoveKeyStep
    \/ IndexRotateKeyStep
    \/ IndexIsAuthorizedStep
    \/ IndexRemoveInactiveAccountsStep
    \/ GetInactiveAccountsStep
    \/ Tick

SpecIndex == IndexInit /\ [][IndexNext]_vars

Next ==
    \/ IsAuthorizedStep
    \/ RegisterKeyStep
    \/ RemoveKeyStep
    \/ RotateKeyStep
    \/ RemoveExpiredKeysStep
    \/ RemoveInactiveAccountsStep
    \/ Tick

Spec == Init /\ [][Next]_vars

\* ================================================================ claims

\* C1: in every reachable state, for every account, holding at least one
\* KeyRecord, having a last_active_timestamp and being in the
\* registered_accounts index are equivalent, and no account has an empty
\* key collection.
C1_AccountConsistency ==
    \A a \in AccountIds :
        /\ (Records(keys, a) # {}) <=> IsSome(last_active_timestamps[a])
        /\ (Records(keys, a) # {}) <=> InIndex(registered_accounts, a)
        /\ keys[a] # Some(<< >>)

\* one account holds two records while the other has been purged or never
\* registered, after the clock has moved
C1_Witness ==
    /\ Len(KeySet(keys, "alice")) = 2
    /\ keys["bob"] = None
    /\ registered_accounts = <<"alice">>
    /\ IsSome(last_active_timestamps["alice"])
    /\ last_active_timestamps["bob"] = None
    /\ block_timestamp_ms > 0

\* the single-signature rule of the specification: exactly one blob, of 64
\* bytes, that verifies
SingleSigValid(signatures) ==
    /\ IsSome(signatures)
    /\ Len(Unwrap(signatures)) = 1
    /\ Unwrap(signatures)[1].len = 64
    /\ Unwrap(signatures)[1].verifies

\* C2: for a registered key that is not multi-sig and not expired,
\* is_authorized returns true iff exactly one 64-byte signature is supplied
\* and it verifies.
C2_SingleSigVerified ==
    \A a \in AccountIds, pk \in PublicKeys, sigs \in SignatureInputs :
        LET found == get_key_info(a, pk)
        IN (/\ IsSome(found)
            /\ ~Unwrap(found).is_multi_sig
            /\ ~IsExpired(Unwrap(found), block_timestamp_ms))
           => (is_authorized(a, pk, sigs).result <=> SingleSigValid(sigs))

ThresholdOf(key_info) ==
    IF IsSome(key_info.multi_sig_threshold) THEN Unwrap(key_info.multi_sig_threshold) ELSE 1

\* C3: for a registered, non-expired multi-sig key with threshold T (1 when
\* absent), is_authorized returns true exactly when the number of supplied
\* blobs (0 for a missing list) is at least T, whatever the blobs contain.
C3_MultiSigThreshold ==
    \A a \in AccountIds, pk \in PublicKeys, sigs \in SignatureInputs :
        LET found == get_key_info(a, pk)
        IN (/\ IsSome(found)
            /\ Unwrap(found).is_multi_sig
            /\ ~IsExpired(Unwrap(found), block_timestamp_ms))
           => (is_authorized(a, pk, sigs).result
                 <=> SigCount(sigs) >= ThresholdOf(Unwrap(found)))

\* an account holds a live multi-sig key that one garbage blob authorizes and
\* no blob does not, and its activity timestamp was refreshed after the
\* clock moved
C3_Witness ==
    \E a \in AccountIds, pk \in PublicKeys :
        LET found == get_key_info(a, pk)
        IN /\ IsSome(found)
           /\ Unwrap(found).is_multi_sig
           /\ ~IsExpired(Unwrap(found), block_timestamp_ms)
           /\ is_authorized(a, pk, Some(<<GarbageSig>>)).result
           /\ ~is_authorized(a, pk, None).result
           /\ block_timestamp_ms > 0
           /\ last_active_timestamps[a] = Some(block_timestamp_ms)

C5_DuplicateKeyRejected ==
    \A a \in AccountIds, pk \in PublicKeys, p \in PolicyInputs :
        HoldsKey(keys, a, pk) =>
            LET o == register_key(a, a, pk, p[1], p[2], p[3])
            IN /\ o.result = "KeyAlreadyExists"
               /\ StateOf(o) = state
               /\ o.logs = << >>

\* C6: in every reachable state no two KeyRecords of one account have the
\* same public_key.
C6_PublicKeyUnique ==
    \A a \in AccountIds :
        \A i, j \in 1..Len(KeySet(keys, a)) :
            KeySet(keys, a)[i].public_key = KeySet(keys, a)[j].public_key => i = j

\* C7: register_key with a threshold above 10 fails with InvalidThreshold
\* and changes nothing, and no stored KeyRecord has a threshold above 10.
C7_ThresholdAtMostTen ==
    /\ \A a \in AccountIds, pk \in PublicKeys, p \in PolicyInputs :
           (IsSome(p[3]) /\ Unwrap(p[3]) > 10) =>
               LET o == register_key(a, a, pk, p[1], p[2], p[3])
               IN o.result = "InvalidThreshold" /\ StateOf(o) = state
    /\ \A a \in AccountIds : \A r \in Records(keys, a) :
           IsSome(r.multi_sig_threshold) => Unwrap(r.multi_sig_threshold) <= 10

\* C8: register_key, remove_key and rotate_key called by a caller other than
\* the target account return Unauthorized, change neither the key
\* collections nor the activity timestamps nor the index, and emit nothing.
C8_SelfServiceOnly ==
    \A c \in AccountIds, a \in AccountIds :
        c # a =>
            /\ \A pk \in PublicKeys, p \in PolicyInputs :
                   LET o == register_key(c, a, pk, p[1], p[2], p[3])
                   IN o.result = "Unauthorized" /\ StateOf(o) = state /\ o.logs = << >>
            /\ \A pk \in PublicKeys :
                   LET o == remove_key(c, a, pk)
                   IN o.result = "Unauthorized" /\ StateOf(o) = state /\ o.logs = << >>
            /\ \A old \in PublicKeys, new \in PublicKeys, p \in PolicyInputs :
                   LET o == rotate_key(c, a, old, new, p[1], p[2], p[3])
                   IN o.result = "Unauthorized" /\ StateOf(o) = state /\ o.logs = << >>

\* an account holds a key that it could itself remove, rotate away or
\* complement with another key, and the other account is refused all three
C8_Witness ==
    \E c \in AccountIds, a \in AccountIds :
        /\ c # a
        /\ remove_key(a, a, "K1").result = "Ok"
        /\ rotate_key(a, a, "K1", "K2", None, FALSE, None).result = "Ok"
        /\ register_key(a, a, "K2", None, FALSE, None).result = "Ok"
        /\ remove_key(c, a, "K1").result = "Unauthorized"
        /\ rotate_key(c, a, "K1", "K2", None, FALSE, None).result = "Unauthorized"
        /\ register_key(c, a, "K2", None, FALSE, None).result = "Unauthorized"
        /\ IsSome(last_active_timestamps[c])

\* C9: remove_key by the owner fails with KeyNotFound iff the account holds
\* no record for the public key; for every key get_key_info reports,
\* remove_key succeeds and removes that record, and removing the last record
\* purges the account so that get_key_info then finds nothing.
C9_RemoveKeyFindsKey ==
    \A a \in AccountIds, pk \in PublicKeys :
        LET o == remove_key(a, a, pk)
            found == get_key_info(a, pk)
        IN /\ (o.result = "KeyNotFound") <=> ~HoldsKey(keys, a, pk)
           /\ IsSome(found) =>
                /\ o.result = "Ok"
                /\ Unwrap(found) \notin Records(o.keys, a)
                /\ Len(KeySet(keys, a)) = 1 =>
                     /\ o.keys[a] = None
                     /\ o.last_active_timestamps[a] = None
                     /\ ~InIndex(o.registered_accounts, a)

\* C10: remove_inactive_accounts fails with KeyNotFound without an activity
\* timestamp, fails with AccountStillActive and changes nothing while
\* now <= last_active + one year, and after that succeeds and leaves the
\* account without KeyRecord, activity timestamp and index entry.
C10_ReapAfterOneYear ==
    \A a \in AccountIds :
        LET o == remove_inactive_accounts(a)
            ts == last_active_timestamps[a]
        IN IF ts = None
           THEN o.result = "KeyNotFound" /\ StateOf(o) = state
           ELSE IF block_timestamp_ms <= Unwrap(ts) + 31536000
           THEN o.result = "AccountStillActive" /\ StateOf(o) = state /\ o.logs = << >>
           ELSE /\ o.result = "Ok"
                /\ o.keys[a] = None
                /\ o.last_active_timestamps[a] = None
                /\ ~InIndex(o.registered_accounts, a)

\* one account is past its year and can be reaped, the other is exactly at
\* the end of its year and cannot
C10_Witness ==
    \E a \in AccountIds, b \in AccountIds :
        /\ IsSome(last_active_timestamps[a])
        /\ IsSome(last_active_timestamps[b])
        /\ block_timestamp_ms > Unwrap(last_active_timestamps[a]) + ONE_YEAR_MS
        /\ block_timestamp_ms = Unwrap(last_active_timestamps[b]) + ONE_YEAR_MS
        /\ remove_inactive_accounts(a).result = "Ok"
        /\ remove_inactive_accounts(b).result = "AccountStillActive"

\* C11: remove_expired_keys fails with KeyNotFound when the account has no
\* records; otherwise it removes exactly the records whose expiration is set
\* and earlier than now, keeps every other record, and purges the account
\* (keys, activity timestamp, index entry) iff no record remains.
C11_SweepRemovesExpired ==
    \A a \in AccountIds :
        LET o == remove_expired_keys(a)
            kept == {r \in Records(keys, a) :
                        ~(/\ IsSome(r.expiration_timestamp)
                          /\ Unwrap(r.expiration_timestamp) < block_timestamp_ms)}
        IN IF Records(keys, a) = {}
           THEN o.result = "KeyNotFound" /\ StateOf(o) = state
           ELSE /\ o.result = "Ok"
                /\ Records(o.keys, a) = kept
                /\ Len(KeySet(o.keys, a)) = Cardinality(kept)
                /\ \A b \in AccountIds \ {a} :
                       /\ o.keys[b] = keys[b]
                       /\ o.last_active_timestamps[b] = last_active_timestamps[b]
                       /\ InIndex(o.registered_accounts, b) <=> InIndex(registered_accounts, b)
                /\ IF kept = {}
                   THEN /\ o.keys[a] = None
                        /\ o.last_active_timestamps[a] = None
                        /\ ~InIndex(o.registered_accounts, a)
                   ELSE /\ o.keys[a] # None
                        /\ o.last_active_timestamps[a] = last_active_timestamps[a]
                        /\ InIndex(o.registered_accounts, a)

\* an account holds an expired record and a live one: the sweep takes one
\* and leaves the account registered; another state has only expired records
C11_Witness ==
    \E a \in AccountIds :
        /\ \E r \in Records(keys, a) : SweepExpired(r, block_timestamp_ms)
        /\ \E r \in Records(keys, a) : ~SweepExpired(r, block_timestamp_ms)
        /\ Len(remove_expired_keys(a).logs) = 1
        /\ Len(KeySet(remove_expired_keys(a).keys, a)) = 1

\* the accounts a call returned, as a set
Listed(o) == {Unwrap(o.result)[i] : i \in 1..Len(Unwrap(o.result))}

\* C12: get_inactive_accounts(limit, offset) with limit <= 100 returns at
\* most limit accounts, each in the index and with
\* now > last_active_timestamp + one year, and changes no state; with
\* limit > 100 the call fails.
C12_InactivePage ==
    \A limit \in LimitInputs, offset \in OffsetInputs :
        LET o == get_inactive_accounts(limit, offset)
        IN /\ StateOf(o) = state
           /\ IF limit > 100 THEN o.result = None
              ELSE /\ IsSome(o.result)
                   /\ Len(Unwrap(o.result)) <= limit
                   /\ \A a \in Listed(o) :
                          /\ InIndex(registered_accounts, a)
                          /\ IsSome(last_active_timestamps[a])
                          /\ block_timestamp_ms >
                                 Unwrap(last_active_timestamps[a]) + 31536000

\* three accounts are indexed, two of them inactive for more than a year:
\* a page of two returns both, a page of one returns one
C12_Witness ==
    /\ Len(registered_accounts) = 3
    /\ Len(Unwrap(get_inactive_accounts(2, 0).result)) = 2
    /\ Len(Unwrap(get_inactive_accounts(1, 0).result)) = 1
    /\ Len(Unwrap(get_inactive_accounts(2, 1).result)) = 1
    /\ get_inactive_accounts(101, 0).result = None

\* C13: is_authorized never raises: it answers false for an account without
\* keys or a key the account does not hold.  When it answers true it sets
\* last_active_timestamp(account) to now and changes nothing else; when it
\* answers false it changes no state.
C13_AuthorizationEffect ==
    \A a \in AccountIds, pk \in PublicKeys, sigs \in SignatureInputs :
        LET o == is_authorized(a, pk, sigs)
        IN /\ o.result \in BOOLEAN
           /\ o.logs = << >>
           /\ ~HoldsKey(keys, a, pk) => o.result = FALSE
           /\ IF o.result
              THEN /\ o.keys = keys
                   /\ o.registered_accounts = registered_accounts
                   /\ o.last_active_timestamps =
                          [last_active_timestamps EXCEPT ![a] = Some(block_timestamp_ms)]
              ELSE StateOf(o) = state

\* after the clock moved, an account with an older activity timestamp holds
\* a key that one blob authorizes and no blob does not, and the other
\* account has no key at all
C13_Witness ==
    \E a \in AccountIds, b \in AccountIds, pk \in PublicKeys :
        /\ IsSome(last_active_timestamps[a])
        /\ Unwrap(last_active_timestamps[a]) < block_timestamp_ms
        /\ is_authorized(a, pk, Some(<<ValidSig>>)).result
        /\ ~is_authorized(a, pk, None).result
        /\ keys[b] = None
        /\ ~is_authorized(b, pk, Some(<<ValidSig>>)).result

\* C14: rotate_key by the owner fails with KeyNotFound when old_key is not
\* held and with KeyAlreadyExists when new_key is already held (new_key =
\* old_key included), changing nothing; on success the account no longer
\* holds old_key, holds new_key with exactly the supplied policy, has as
\* many keys as before, keeps every other record, and last_active_timestamp
\* is now.
C14_RotateKey ==
    \A a \in AccountIds, old \in PublicKeys, new \in PublicKeys, p \in PolicyInputs :
        LET o == rotate_key(a, a, old, new, p[1], p[2], p[3])
            new_info == KeyInfo(new, ExpirationTimestamp(p[1], block_timestamp_ms),
                                p[2], p[3])
        IN /\ ~HoldsKey(keys, a, old) =>
                  o.result = "KeyNotFound" /\ StateOf(o) = state
           /\ (HoldsKey(keys, a, old) /\ HoldsKey(keys, a, new)) =>
                  o.result = "KeyAlreadyExists" /\ StateOf(o) = state
           /\ o.result = "Ok" =>
                  /\ ~HoldsKey(o.keys, a, old)
                  /\ \A r \in Records(o.keys, a) : r.public_key = new => r = new_info
                  /\ new_info \in Records(o.keys, a)
                  /\ Len(KeySet(o.keys, a)) = Len(KeySet(keys, a))
                  /\ \A r \in Records(keys, a) :
                         r.public_key # old => r \in Records(o.keys, a)
                  /\ o.last_active_timestamps[a] = Some(block_timestamp_ms)

\* no record of the key set carries the public key
KeyAbsent(key_set, pk) == \A i \in 1..Len(key_set) : key_set[i].public_key # pk

\* the events of a removal loop over to_remove: one KeyRemoved per record,
\* each emitted when the account holds the reported key no more
LoopEventsFollowRemovals(a, logs, key_set, to_remove) ==
    /\ Len(logs) = Len(to_remove)
    /\ \A i \in 1..Len(to_remove) :
           /\ logs[i] = KeyRemoved(a, to_remove[i].public_key)
           /\ KeyAbsent(KeySetAtEmission(key_set, to_remove, i), to_remove[i].public_key)

\* C15: a successful register_key emits exactly one KeyRegistered, a
\* successful remove_key exactly one KeyRemoved, remove_expired_keys and
\* remove_inactive_accounts one KeyRemoved per record removed, a failed
\* operation emits nothing; when KeyRegistered{account,key} is emitted the
\* account holds key, when KeyRemoved{account,key} is emitted it does not.
C15_EventsFollowState ==
    /\ \A c \in AccountIds, a \in AccountIds, pk \in PublicKeys, p \in PolicyInputs :
           LET o == register_key(c, a, pk, p[1], p[2], p[3])
           IN IF o.result = "Ok"
              THEN o.logs = <<KeyRegistered(a, pk)>> /\ HoldsKey(o.keys, a, pk)
              ELSE o.logs = << >>
    /\ \A c \in AccountIds, a \in AccountIds, pk \in PublicKeys :
           LET o == remove_key(c, a, pk)
           IN IF o.result = "Ok"
              THEN o.logs = <<KeyRemoved(a, pk)>> /\ ~HoldsKey(o.keys, a, pk)
              ELSE o.logs = << >>
    /\ \A c \in AccountIds, a \in AccountIds, old \in PublicKeys, new \in PublicKeys,
          p \in PolicyInputs :
           LET o == rotate_key(c, a, old, new, p[1], p[2], p[3])
           IN o.result # "Ok" => o.logs = << >>
    /\ \A a \in AccountIds :
           LET o == remove_expired_keys(a)
           IN IF o.result = "Ok"
              THEN /\ Len(o.logs) = Len(KeySet(keys, a)) - Len(KeySet(o.keys, a))
                   /\ LoopEventsFollowRemovals(a, o.logs, KeySet(keys, a),
                          ExpiredRecords(KeySet(keys, a), block_timestamp_ms))
              ELSE o.logs = << >>
    /\ \A a \in AccountIds :
           LET o == remove_inactive_accounts(a)
           IN IF o.result = "Ok"
              THEN /\ Len(o.logs) = Len(KeySet(keys, a))
                   /\ LoopEventsFollowRemovals(a, o.logs, KeySet(keys, a), KeySet(keys, a))
              ELSE o.logs = << >>

\* the registration status of an account: Active iff it has a KeyRecord
Active(ks, a) == KeySet(ks, a) # << >>
SameStatus(o) == \A b \in AccountIds : Active(o.keys, b) <=> Active(keys, b)

\* is_authorized, rotate_key, the reads, register_key of a further key,
\* remove_key that leaves keys behind and every failed call keep the status
\* of every account
StatusKept ==
    /\ \A a \in AccountIds, pk \in PublicKeys, sigs \in SignatureInputs :
           SameStatus(is_authorized(a, pk, sigs))
    /\ \A c \in AccountIds, a \in AccountIds, old \in PublicKeys, new \in PublicKeys,
          p \in PolicyInputs :
           SameStatus(rotate_key(c, a, old, new, p[1], p[2], p[3]))
    /\ \A limit \in LimitInputs, offset \in OffsetInputs :
           StateOf(get_inactive_accounts(limit, offset)) = state
    /\ \A c \in AccountIds, a \in AccountIds, pk \in PublicKeys, p \in PolicyInputs :
           LET o == register_key(c, a, pk, p[1], p[2], p[3])
           IN (o.result # "Ok" \/ Active(keys, a)) => SameStatus(o)
    /\ \A c \in AccountIds, a \in AccountIds, pk \in PublicKeys :
           LET o == remove_key(c, a, pk)
           IN (o.result # "Ok" \/ Len(KeySet(keys, a)) > 1) => SameStatus(o)
    /\ \A a \in AccountIds :
           /\ remove_expired_keys(a).result # "Ok" => SameStatus(remove_expired_keys(a))
           /\ remove_inactive_accounts(a).result # "Ok" =>
                  SameStatus(remove_inactive_accounts(a))

\* a step that changes the status of account a is one of the listed calls, and
\* a step out of Active takes key set, activity timestamp and index entry
StatusStep(a) ==
    IF Active(keys', a) = Active(keys, a) THEN TRUE
    ELSE IF Active(keys', a)
    THEN \E pk \in PublicKeys, p \in PolicyInputs :
             LET o == register_key(a, a, pk, p[1], p[2], p[3])
             IN o.result = "Ok" /\ StateOf(o) = state'
    ELSE /\ keys'[a] = None
         /\ last_active_timestamps'[a] = None
         /\ ~InIndex(registered_accounts', a)
         /\ \/ \E pk \in PublicKeys :
                   LET o == remove_key(a, a, pk)
                   IN /\ o.result = "Ok"
                      /\ Len(KeySet(keys, a)) = 1
                      /\ StateOf(o) = state'
            \/ LET o == remove_expired_keys(a)
               IN o.result = "Ok" /\ StateOf(o) = state'
            \/ LET o == remove_inactive_accounts(a)
               IN o.result = "Ok" /\ StateOf(o) = state'

\* C16: an account goes from Unregistered to Active only by a successful
\* register_key of its first key, and from Active to Unregistered only by
\* remove_key of its last key, by remove_expired_keys that empties it or by a
\* successful remove_inactive_accounts; every other call keeps the status,
\* and every exit from Active removes key set, activity timestamp and index
\* entry in the same step.
C16_StatusTransitions ==
    /\ []StatusKept
    /\ [][\A a \in AccountIds : StatusStep(a)]_vars

\* an account with a single plain key that remove_key would purge, next to
\* an account whose only key has expired and that the sweep would purge,
\* after the first account was registered a second time
C16_Witness ==
    \E a \in AccountIds, b \in AccountIds, pk \in PublicKeys :
        /\ a # b
        /\ Len(KeySet(keys, a)) = 1
        /\ remove_key(a, a, pk).result = "Ok"
        /\ remove_key(a, a, pk).keys[a] = None
        /\ Len(KeySet(keys, b)) = 1
        /\ remove_expired_keys(b).keys[b] = None
        /\ registered_accounts = <<b, a>>
        /\ Unwrap(last_active_timestamps[a]) > Unwrap(last_active_timestamps[b])

\* C17: the expiry tests of is_authorized and of remove_expired_keys agree
\* at every clock value: the sweep removes a record with expiration E exactly
\* when is_authorized refuses it for expiry (now > E); at now = E the key
\* is still accepted and is not swept.
C17_ExpiryTestsAgree ==
    \A a \in AccountIds :
        /\ \A r \in Records(keys, a) :
               (r \notin Records(remove_expired_keys(a).keys, a))
                   <=> (/\ IsSome(r.expiration_timestamp)
                        /\ block_timestamp_ms > Unwrap(r.expiration_timestamp))
        /\ \A pk \in PublicKeys :
               LET found == get_key_info(a, pk)
                   r == Unwrap(found)
                   sigs == Some(<<ValidSig, ValidSig>>)
                   swept == r \notin Records(remove_expired_keys(a).keys, a)
                   refused == ~is_authorized(a, pk, sigs).result
               IN (IsSome(found) /\ (r.is_multi_sig => SigCount(sigs) >= ThresholdOf(r))) =>
                      /\ swept <=> refused
                      /\ r.expiration_timestamp = Some(block_timestamp_ms) =>
                             ~swept /\ ~refused

\* one account holds a key past its expiration, refused and swept, and a key
\* exactly at its expiration instant, accepted and kept
C17_Witness ==
    \E a \in AccountIds, pk \in PublicKeys, qk \in PublicKeys :
        LET r == Unwrap(get_key_info(a, pk))
            q == Unwrap(get_key_info(a, qk))
            o == remove_expired_keys(a)
        IN /\ IsSome(get_key_info(a, pk))
           /\ IsSome(get_key_info(a, qk))
           /\ r.expiration_timestamp = Some(block_timestamp_ms)
           /\ is_authorized(a, pk, Some(<<ValidSig>>)).result
           /\ r \in Records(o.keys, a)
           /\ IsSome(q.expiration_timestamp)
           /\ Unwrap(q.expiration_timestamp) < block_timestamp_ms
           /\ ~is_authorized(a, qk, Some(<<ValidSig>>)).result
           /\ q \notin Records(o.keys, a)

\* the clock values of the model
ActivityTimes == {k * ONE_YEAR_MS : k \in 0..MaxTicks}

PageInputs == {limit \in LimitInputs : limit <= 100} \X OffsetInputs

\* a successful register_key, rotate_key or is_authorized leaves the
\* account with last_active_timestamp = now
ActivityRecorded ==
    \A a \in IndexAccountIds, pk \in PublicKeys :
        /\ LET o == register_key(a, a, pk, None, FALSE, None)
           IN o.result = "Ok" => o.last_active_timestamps[a] = Some(block_timestamp_ms)
        /\ \A new \in PublicKeys :
               LET o == rotate_key(a, a, pk, new, None, FALSE, None)
               IN o.result = "Ok" => o.last_active_timestamps[a] = Some(block_timestamp_ms)
        /\ LET o == is_authorized(a, pk, None)
           IN o.result => o.last_active_timestamps[a] = Some(block_timestamp_ms)

\* reaping the account is refused
Protected(a) == remove_inactive_accounts(a).result = "AccountStillActive"

\* a page lists only accounts that reaping would remove, and lists every such
\* account at a scanned position
ListedIffReapable ==
    \A pg \in PageInputs :
        LET listed == Listed(get_inactive_accounts(pg[1], pg[2]))
        IN /\ \A a \in listed : remove_inactive_accounts(a).result = "Ok"
           /\ \A i \in 1..Len(registered_accounts) :
                  (/\ pg[2] < i
                   /\ i <= pg[2] + pg[1]
                   /\ remove_inactive_accounts(registered_accounts[i]).result = "Ok")
                      => registered_accounts[i] \in listed

\* C18: after an activity of the account at time t (a successful
\* register_key or rotate_key, an is_authorized that answered true), every
\* remove_inactive_accounts at a time now <= t + one year fails with
\* AccountStillActive and get_inactive_accounts does not list the account,
\* as long as the account is registered: a page lists only accounts on which
\* remove_inactive_accounts would succeed, and every such account in the
\* scanned window.
C18_ActivityProtects ==
    /\ []ActivityRecorded
    /\ \A a \in IndexAccountIds : \A t \in ActivityTimes :
           [](last_active_timestamps[a] = Some(t) =>
                [](( /\ IsSome(last_active_timestamps[a])
                     /\ block_timestamp_ms <= t + 31536000) => Protected(a)))
    /\ []ListedIffReapable

\* an account whose last activity is a later is_authorized or rotate_key is
\* exactly one year past it and protected, while another account, indexed
\* before it, is past its year, listed and reapable
C18_Witness ==
    \E a \in IndexAccountIds, b \in IndexAccountIds :
        /\ registered_accounts = <<b, a>>
        /\ IsSome(last_active_timestamps[a])
        /\ Unwrap(last_active_timestamps[a]) > 0
        /\ block_timestamp_ms = Unwrap(last_active_timestamps[a]) + ONE_YEAR_MS
        /\ Protected(a)
        /\ \A pg \in PageInputs : a \notin Listed(get_inactive_accounts(pg[1], pg[2]))
        /\ remove_inactive_accounts(b).result = "Ok"
        /\ get_inactive_accounts(2, 0).result = Some(<<b>>)

\* the activity timestamp of a is the same after o as before
SameActivity(o, a) == o.last_active_timestamps[a] = last_active_timestamps[a]

\* never ahead of the clock
LastActiveNotAhead ==
    \A a \in AccountIds :
        IsSome(last_active_timestamps[a]) =>
            Unwrap(last_active_timestamps[a]) <= block_timestamp_ms

\* register_key, rotate_key and an is_authorized that answers true store the
\* current time; remove_key and remove_expired_keys that leave keys behind
\* and every failed operation leave the timestamp as it was
WritesStoreNow ==
    /\ \A a \in AccountIds, pk \in PublicKeys, sigs \in SignatureInputs :
           LET o == is_authorized(a, pk, sigs)
           IN IF o.result
              THEN o.last_active_timestamps[a] = Some(block_timestamp_ms)
              ELSE o.last_active_timestamps = last_active_timestamps
    /\ \A c \in AccountIds, a \in AccountIds, pk \in PublicKeys, p \in PolicyInputs :
           LET o == register_key(c, a, pk, p[1], p[2], p[3])
           IN IF o.result = "Ok"
              THEN o.last_active_timestamps[a] = Some(block_timestamp_ms)
              ELSE o.last_active_timestamps = last_active_timestamps
    /\ \A c \in AccountIds, a \in AccountIds, old \in PublicKeys, new \in PublicKeys,
          p \in PolicyInputs :
           LET o == rotate_key(c, a, old, new, p[1], p[2], p[3])
           IN IF o.result = "Ok"
              THEN o.last_active_timestamps[a] = Some(block_timestamp_ms)
              ELSE o.last_active_timestamps = last_active_timestamps
    /\ \A c \in AccountIds, a \in AccountIds, pk \in PublicKeys :
           LET o == remove_key(c, a, pk)
           IN IF o.result = "Ok"
              THEN IsSome(o.keys[a]) => SameActivity(o, a)
              ELSE o.last_active_timestamps = last_active_timestamps
    /\ \A a \in AccountIds :
           LET o == remove_expired_keys(a)
           IN IF o.result = "Ok"
              THEN IsSome(o.keys[a]) => SameActivity(o, a)
              ELSE o.last_active_timestamps = last_active_timestamps
    /\ \A a \in AccountIds :
           LET o == remove_inactive_accounts(a)
           IN o.result # "Ok" => o.last_active_timestamps = last_active_timestamps

\* over one step, the timestamp of an account that stays registered is still
\* there and has not moved back
LastActiveStep(a) ==
    (IsSome(keys[a]) /\ IsSome(keys'[a])) =>
        /\ IsSome(last_active_timestamps'[a])
        /\ IsSome(last_active_timestamps[a]) =>
               Unwrap(last_active_timestamps'[a]) >= Unwrap(last_active_timestamps[a])

\* C19: with the non-decreasing clock, an account's last_active_timestamp
\* never decreases while the account stays registered and never exceeds the
\* current clock value: register_key, rotate_key and a successful
\* is_authorized store the current time; remove_key and remove_expired_keys
\* that leave keys behind, and failed operations, leave it unchanged.
C19_LastActiveMonotonic ==
    /\ []LastActiveNotAhead
    /\ []WritesStoreNow
    /\ [][block_timestamp_ms' >= block_timestamp_ms]_vars
    /\ [][\A a \in AccountIds : LastActiveStep(a)]_vars

\* an account with two keys, last active one year after the start and one
\* year ago, from which remove_key takes one key and leaves the timestamp,
\* and for which an is_authorized would store the current time
C19_Witness ==
    \E a \in AccountIds, pk \in PublicKeys, sigs \in SignatureInputs :
        /\ Len(KeySet(keys, a)) = 2
        /\ last_active_timestamps[a] = Some(ONE_YEAR_MS)
        /\ block_timestamp_ms = 2 * ONE_YEAR_MS
        /\ remove_key(a, a, pk).result = "Ok"
        /\ Len(KeySet(remove_key(a, a, pk).keys, a)) = 1
        /\ remove_key(a, a, pk).last_active_timestamps[a] = Some(ONE_YEAR_MS)
        /\ is_authorized(a, pk, sigs).result
        /\ is_authorized(a, pk, sigs).last_active_timestamps[a] = Some(2 * ONE_YEAR_MS)

\* the page sizes of the walk
PageLimits == {1, 2, 3, 100}

\* get_inactive_accounts(L, offset), get_inactive_accounts(L, offset + L), ...
\* one after the other until the index is exhausted
RECURSIVE PagesFrom(_, _)
PagesFrom(L, offset) ==
    IF offset >= Len(registered_accounts) THEN << >>
    ELSE Unwrap(get_inactive_accounts(L, offset).result) \o PagesFrom(L, offset + L)

\* the one-year inactivity predicate
PastOneYear(a) ==
    /\ IsSome(last_active_timestamps[a])
    /\ block_timestamp_ms > Unwrap(last_active_timestamps[a]) + 31536000

\* C20: with no mutation and no clock change between the calls and a fixed
\* limit L, 1 <= L <= 100, the pages get_inactive_accounts(L, 0),
\* get_inactive_accounts(L, L), get_inactive_accounts(L, 2L), ... taken until
\* the index is exhausted hold every indexed account that satisfies the
\* one-year inactivity predicate exactly once, in index iteration order.
C20_PagesCoverIndex ==
    \A L \in PageLimits :
        PagesFrom(L, 0) = SelectSeq(registered_accounts, PastOneYear)

\* three indexed accounts, the first and the last inactive and the middle one
\* not, so that pages of one and of two accounts split the inactive ones
C20_Witness ==
    /\ Len(registered_accounts) = 3
    /\ PastOneYear(registered_accounts[1])
    /\ ~PastOneYear(registered_accounts[2])
    /\ PastOneYear(registered_accounts[3])
    /\ get_inactive_accounts(2, 0).result = Some(<<registered_accounts[1]>>)
    /\ get_inactive_accounts(2, 2).result = Some(<<registered_accounts[3]>>)
    /\ PagesFrom(1, 0) = <<registered_accounts[1], registered_accounts[3]>>
====
